---- MODULE Spec2Model ----
(***************************************************************************)
(* One call session of the outbound media-stream relay: the handler of     *)
(* the /outbound-media-stream WebSocket route.  The repository holds two   *)
(* near-duplicate implementations of it, src/outbound.js and               *)
(* src/unnamed/part_000; `variant` says which of the two is running, and   *)
(* every handler is translated from the file it names.                     *)
(*                                                                         *)
(* toAgent is the sequence of frames handed to elevenLabsWs.send(), and    *)
(* toTwilio the sequence of frames handed to ws.send(), in call order.     *)
(***************************************************************************)
EXTENDS Integers, Sequences, FiniteSets, TLC

VARIABLES
    variant,           \* which source file runs: OUTBOUND or PART000
    streamSid,         \* let streamSid = null
    callSid,           \* let callSid = null
    customParameters,  \* let customParameters = null
    setup,             \* position of the async setupElevenLabs()
    readyState,        \* elevenLabsWs?.readyState ("NONE" while elevenLabsWs is null)
    toAgent,           \* frames passed to elevenLabsWs.send()
    toTwilio,          \* frames passed to ws.send()
    closeCalls,        \* number of calls of elevenLabsWs.close()
    twilioOpen,        \* the telephony WebSocket is still open
    processAlive,      \* the Node process has not died of an uncaught exception
    startReceived,     \* history: a `start` event has been processed
    stopReceived,      \* history: a `stop` event has been processed
    lastEvent,         \* history: the event the last handler ran for
    cur,               \* the session the variables above belong to: 1 or 2
    other              \* the per-connection variables of the other session

vars == << variant, streamSid, callSid, customParameters, setup, readyState,
           toAgent, toTwilio, closeCalls, twilioOpen, processAlive,
           startReceived, stopReceived, lastEvent, cur, other >>

----------------------------------------------------------------------------
(* Bounds of the model *)

\* most frames passed to elevenLabsWs.send() in one session
MaxAgentFrames == 2
\* most frames passed to ws.send() in one session
MaxTwilioFrames == 1
\* most `stop` events delivered in one session
MaxStops == 2

----------------------------------------------------------------------------
(* Values *)

OUTBOUND == "src/outbound.js"
PART000  == "src/unnamed/part_000"
Variants == {OUTBOUND, PART000}

\* JavaScript null / undefined in a field that otherwise holds a string
UNDEFINED == "<undefined>"

\* ping_event?.event_id when the ping carries no identifier
NoEventId == -1

\* JavaScript truthiness of a string-or-undefined value
Truthy(s) == s # UNDEFINED /\ s # ""

\* JavaScript truthiness of an event identifier (a number, or undefined)
TruthyId(n) == n # NoEventId /\ n # 0

\* a || b on string-or-undefined values
Or(a, b) == IF Truthy(a) THEN a ELSE b

Payloads == {"AAAA", "BBBB"}
EventIds == {NoEventId, 0, 42}

\* customParameters = null, and msg.start.customParameters absent from a start
NoParams == [defined |-> FALSE, prompt |-> UNDEFINED, first_message |-> UNDEFINED]

\* the customParameters a start event may carry
ParamsSet ==
    {NoParams} \cup
    [defined : {TRUE}, prompt : {"X", ""}, first_message : {"Y", UNDEFINED}]

\* start events that carry a start object: msg.start = {streamSid, callSid,
\* customParameters}, and msg.start = {} with none of the three
StartMsgs ==
    [streamSid : {"S1"}, callSid : {"C1"}, customParameters : ParamsSet] \cup
    { [streamSid |-> UNDEFINED, callSid |-> UNDEFINED, customParameters |-> NoParams] }

\* agent audio messages: message.audio?.chunk and message.audio_event?.audio_base_64
AudioMsgs ==
    { [chunk |-> "AAAA", audio_base_64 |-> UNDEFINED],
      [chunk |-> UNDEFINED, audio_base_64 |-> "BBBB"],
      [chunk |-> UNDEFINED, audio_base_64 |-> UNDEFINED] }

Event(kind, chunk, alt, id) ==
    [kind |-> kind, chunk |-> chunk, alt |-> alt, id |-> id]

Ev(kind) == Event(kind, UNDEFINED, UNDEFINED, NoEventId)

----------------------------------------------------------------------------
(* The session after the route handler has run: the four variables are    *)
(* null and setupElevenLabs() is awaiting getSignedUrl().                  *)

\* the variables the route handler declares for one connection (with the
\* history kept for them), in the state the handler leaves them in
FreshSession ==
    [ streamSid |-> UNDEFINED, callSid |-> UNDEFINED,
      customParameters |-> NoParams, setup |-> "acquiring",
      readyState |-> "NONE", toAgent |-> << >>, toTwilio |-> << >>,
      closeCalls |-> 0, twilioOpen |-> TRUE, startReceived |-> FALSE,
      stopReceived |-> FALSE ]

Init ==
    /\ variant \in Variants
    /\ streamSid = UNDEFINED
    /\ callSid = UNDEFINED
    /\ customParameters = NoParams
    /\ setup = "acquiring"
    /\ readyState = "NONE"
    /\ toAgent = << >>
    /\ toTwilio = << >>
    /\ closeCalls = 0
    /\ twilioOpen = TRUE
    /\ processAlive = TRUE
    /\ startReceived = FALSE
    /\ stopReceived = FALSE
    /\ lastEvent = Ev("none")
    /\ cur = 1
    /\ other = FreshSession

----------------------------------------------------------------------------
(* Pure parts of the handlers *)

\* customParameters?.prompt and customParameters?.first_message
ParamPrompt(cp) == IF cp.defined THEN cp.prompt ELSE UNDEFINED
ParamFirstMessage(cp) == IF cp.defined THEN cp.first_message ELSE UNDEFINED

\* the fixed fallback strings of the two files
DefaultPrompt(v) ==
    IF v = OUTBOUND THEN "You are Gary from the phone store."
                    ELSE "Hello! How can I help?"
DefaultFirstMessage(v) ==
    IF v = OUTBOUND THEN "Hey there! How can I help you today?"
                    ELSE "Hi there!"

\* initialConfig with ?? in place of ||: an empty string is kept
InitialConfigNullish(v, cp) ==
    [ type          |-> "conversation_initiation_client_data",
      prompt        |-> IF ParamPrompt(cp) # UNDEFINED
                        THEN ParamPrompt(cp) ELSE DefaultPrompt(v),
      first_message |-> IF ParamFirstMessage(cp) # UNDEFINED
                        THEN ParamFirstMessage(cp) ELSE DefaultFirstMessage(v) ]

\* the initialConfig object built in the "open" handler
InitialConfig(v, cp) ==
    [ type          |-> "conversation_initiation_client_data",
      prompt        |-> Or(ParamPrompt(cp), DefaultPrompt(v)),
      first_message |-> Or(ParamFirstMessage(cp), DefaultFirstMessage(v)) ]

\* the media case testing the connection object instead of its readyState
MediaFramesAnyState(rs, payload) ==
    IF rs # "NONE" THEN << [user_audio_chunk |-> payload] >> ELSE << >>

\* case "media" of the telephony handler: the frames it sends to the agent
MediaFrames(rs, payload) ==
    IF rs = "OPEN" THEN << [user_audio_chunk |-> payload] >> ELSE << >>

\* the audioData object
AudioData(sid, payload) ==
    [event |-> "media", streamSid |-> sid, payload |-> payload]

\* the audio case without its test of streamSid
AudioFramesNoSidTest(sid, m) ==
    << AudioData(sid, Or(m.chunk, m.audio_base_64)) >>

\* case "audio" of the agent handler: the frames it sends to the telephony side
AudioFrames_outbound(sid, m) ==
    IF Truthy(sid)
    THEN << AudioData(sid, Or(m.chunk, m.audio_base_64)) >>
    ELSE << >>

AudioFrames_part000(sid, m) ==
    IF Truthy(sid) /\ Truthy(m.chunk)
    THEN << AudioData(sid, m.chunk) >>
    ELSE << >>

AudioFrames(v, sid, m) ==
    IF v = OUTBOUND THEN AudioFrames_outbound(sid, m)
                    ELSE AudioFrames_part000(sid, m)

\* case "ping" of the agent handler: the frames it sends back to the agent
PongFrames_outbound(id) ==
    IF TruthyId(id) THEN << [type |-> "pong", event_id |-> id] >> ELSE << >>

\* part_000 has no "ping" case: a ping falls to the default branch
PongFrames_part000(id) == << >>

PongFrames(v, id) ==
    IF v = OUTBOUND THEN PongFrames_outbound(id) ELSE PongFrames_part000(id)

\* case "stop": whether elevenLabsWs.close() is called
StopCloses_outbound(rs) == rs # "NONE"
StopCloses_part000(rs) == rs = "OPEN"
StopCloses(v, rs) ==
    IF v = OUTBOUND THEN StopCloses_outbound(rs) ELSE StopCloses_part000(rs)

\* readyState after elevenLabsWs.close()
AfterClose(rs) == IF rs \in {"CONNECTING", "OPEN"} THEN "CLOSING" ELSE rs

\* an "error" event on elevenLabsWs: part_000 registers a listener that logs
\* it; outbound.js registers none, so the emitter throws and the process dies
ErrorHandled_outbound == FALSE
ErrorHandled_part000 == TRUE
ErrorHandled(v) ==
    IF v = OUTBOUND THEN ErrorHandled_outbound ELSE ErrorHandled_part000

----------------------------------------------------------------------------
(* Telephony side: ws.on("message"), one action per event kind *)

Running == processAlive

\* the start case also calling setupElevenLabs(), to have the parameters in
\* hand before the connection opens
TwilioStartSetsUp(m) ==
    /\ Running /\ twilioOpen
    /\ streamSid' = m.streamSid
    /\ callSid' = m.callSid
    /\ customParameters' = m.customParameters
    /\ startReceived' = TRUE
    /\ setup' = "acquiring"
    /\ lastEvent' = Event("start", m.streamSid, UNDEFINED, NoEventId)
    /\ UNCHANGED << cur, other, stopReceived, variant, readyState, toAgent,
                    toTwilio, closeCalls, twilioOpen, processAlive >>

TwilioStart(m) ==
    /\ Running /\ twilioOpen
    /\ streamSid' = m.streamSid
    /\ callSid' = m.callSid
    /\ customParameters' = m.customParameters
    /\ startReceived' = TRUE
    /\ lastEvent' = Event("start", m.streamSid, UNDEFINED, NoEventId)
    /\ UNCHANGED << cur, other, stopReceived, variant, setup, readyState, toAgent, toTwilio, closeCalls,
                    twilioOpen, processAlive >>

\* the start case reading msg.start?.streamSid: streamSid is overwritten with
\* undefined before msg.start.callSid throws
TwilioStartMalformedPartial ==
    /\ Running /\ twilioOpen
    /\ streamSid' = UNDEFINED
    /\ lastEvent' = Ev("start!")
    /\ UNCHANGED << cur, other, stopReceived, variant, callSid,
                    customParameters, setup, readyState, toAgent, toTwilio,
                    closeCalls, twilioOpen, processAlive, startReceived >>

\* a start event without its nested start object: msg.start.streamSid throws
\* before any assignment, and the catch logs
TwilioStartMalformed ==
    /\ Running /\ twilioOpen
    /\ lastEvent' = Ev("start!")
    /\ UNCHANGED << cur, other, stopReceived, variant, streamSid, callSid, customParameters, setup,
                    readyState, toAgent, toTwilio, closeCalls, twilioOpen,
                    processAlive, startReceived >>

TwilioMedia(payload) ==
    /\ Running /\ twilioOpen
    /\ toAgent' = toAgent \o MediaFrames(readyState, payload)
    /\ Len(toAgent') <= MaxAgentFrames
    /\ lastEvent' = Event("media", payload, UNDEFINED, NoEventId)
    /\ UNCHANGED << cur, other, stopReceived, variant, streamSid, callSid, customParameters, setup,
                    readyState, toTwilio, closeCalls, twilioOpen, processAlive,
                    startReceived >>

TwilioStop ==
    /\ Running /\ twilioOpen
    /\ closeCalls < MaxStops
    /\ IF StopCloses(variant, readyState)
       THEN /\ closeCalls' = closeCalls + 1
            /\ readyState' = AfterClose(readyState)
       ELSE UNCHANGED << closeCalls, readyState >>
    /\ stopReceived' = TRUE
    /\ lastEvent' = Ev("stop")
    /\ UNCHANGED << cur, other, variant, streamSid, callSid, customParameters, setup,
                    toAgent, toTwilio, twilioOpen, processAlive, startReceived >>

\* events no case matches ("connected", "mark"), payloads JSON.parse rejects
\* and a media event without its media object (msg.media.payload throws, or
\* is never read): the catch logs, nothing else happens
TwilioIgnored ==
    /\ Running /\ twilioOpen
    /\ lastEvent' = Ev("ignored")
    /\ UNCHANGED << cur, other, stopReceived, variant, streamSid, callSid, customParameters, setup,
                    readyState, toAgent, toTwilio, closeCalls, twilioOpen,
                    processAlive, startReceived >>

\* ws.on("error", console.error): the error is printed
TwilioError ==
    /\ Running /\ twilioOpen
    /\ lastEvent' = Ev("twilio-error")
    /\ UNCHANGED << cur, other, stopReceived, variant, streamSid, callSid, customParameters, setup,
                    readyState, toAgent, toTwilio, closeCalls, twilioOpen,
                    processAlive, startReceived >>

\* the telephony stream closes: the handler registers no "close" listener
TwilioClose ==
    /\ Running /\ twilioOpen
    /\ twilioOpen' = FALSE
    /\ lastEvent' = Ev("twilio-close")
    /\ UNCHANGED << cur, other, stopReceived, variant, streamSid, callSid, customParameters, setup,
                    readyState, toAgent, toTwilio, closeCalls, processAlive,
                    startReceived >>

----------------------------------------------------------------------------
(* Agent side: setupElevenLabs() and the listeners it registers *)

\* getSignedUrl() resolves: elevenLabsWs = new WebSocket(signedUrl)
SignedUrlResolved ==
    /\ Running
    /\ setup = "acquiring"
    /\ setup' = "created"
    /\ readyState' = "CONNECTING"
    /\ lastEvent' = Ev("signed-url")
    /\ UNCHANGED << cur, other, stopReceived, variant, streamSid, callSid, customParameters, toAgent,
                    toTwilio, closeCalls, twilioOpen, processAlive,
                    startReceived >>

\* getSignedUrl() swallowing its error and returning undefined, with the
\* WebSocket constructed all the same
SignedUrlRejectedConnects ==
    /\ Running
    /\ setup = "acquiring"
    /\ setup' = "failed"
    /\ readyState' = "CONNECTING"
    /\ lastEvent' = Ev("signed-url!")
    /\ UNCHANGED << cur, other, stopReceived, variant, streamSid, callSid,
                    customParameters, toAgent, toTwilio, closeCalls,
                    twilioOpen, processAlive, startReceived >>

\* getSignedUrl() throws (response not ok, or the fetch fails): the catch of
\* setupElevenLabs logs, and elevenLabsWs stays null
SignedUrlRejected ==
    /\ Running
    /\ setup = "acquiring"
    /\ setup' = "failed"
    /\ lastEvent' = Ev("signed-url!")
    /\ UNCHANGED << cur, other, stopReceived, variant, streamSid, callSid, customParameters, readyState,
                    toAgent, toTwilio, closeCalls, twilioOpen, processAlive,
                    startReceived >>

\* elevenLabsWs.on("open")
AgentOpen ==
    /\ Running
    /\ readyState = "CONNECTING"
    /\ readyState' = "OPEN"
    /\ toAgent' = Append(toAgent, InitialConfig(variant, customParameters))
    /\ lastEvent' = Ev("open")
    /\ UNCHANGED << cur, other, stopReceived, variant, streamSid, callSid, customParameters, setup,
                    toTwilio, closeCalls, twilioOpen, processAlive,
                    startReceived >>

IsInit(f) ==
    "type" \in DOMAIN f /\ f.type = "conversation_initiation_client_data"

\* the "open" listener has run: its one statement path sends the
\* initialization message, so the frame is on record iff the socket opened
InitSent == \E i \in 1..Len(toAgent) : IsInit(toAgent[i])

\* messages are delivered once the connection has opened, and until the close
\* handshake completes after close() was called; a socket closed while still
\* connecting never delivers one
Receiving == readyState \in {"OPEN", "CLOSING"} /\ InitSent

\* elevenLabsWs.on("message"), case "audio"
AgentAudio(m) ==
    /\ Running /\ Receiving
    /\ toTwilio' = toTwilio \o AudioFrames(variant, streamSid, m)
    /\ Len(toTwilio') <= MaxTwilioFrames
    /\ lastEvent' = Event("audio", m.chunk, m.audio_base_64, NoEventId)
    /\ UNCHANGED << cur, other, stopReceived, variant, streamSid, callSid, customParameters, setup,
                    readyState, toAgent, closeCalls, twilioOpen, processAlive,
                    startReceived >>

\* elevenLabsWs.on("message"), a message of type "ping"
AgentPing(id) ==
    /\ Running /\ Receiving
    /\ toAgent' = toAgent \o PongFrames(variant, id)
    /\ Len(toAgent') <= MaxAgentFrames
    /\ lastEvent' = Event("ping", UNDEFINED, UNDEFINED, id)
    /\ UNCHANGED << cur, other, stopReceived, variant, streamSid, callSid, customParameters, setup,
                    readyState, toTwilio, closeCalls, twilioOpen, processAlive,
                    startReceived >>

\* elevenLabsWs.on("message"): the types that are only logged, the default
\* branch, and data JSON.parse rejects (caught and logged)
AgentInfo ==
    /\ Running /\ Receiving
    /\ lastEvent' = Ev("info")
    /\ UNCHANGED << cur, other, stopReceived, variant, streamSid, callSid, customParameters, setup,
                    readyState, toAgent, toTwilio, closeCalls, twilioOpen,
                    processAlive, startReceived >>

\* an "error" event on elevenLabsWs; the socket then goes on to close
AgentError ==
    /\ Running
    /\ readyState \in {"CONNECTING", "OPEN", "CLOSING"}
    /\ readyState' = "CLOSING"
    /\ processAlive' = ErrorHandled(variant)
    /\ lastEvent' = Ev("agent-error")
    /\ UNCHANGED << cur, other, stopReceived, variant, streamSid, callSid, customParameters, setup,
                    toAgent, toTwilio, closeCalls, twilioOpen, startReceived >>

\* a "close" listener that reconnects by calling setupElevenLabs() again
AgentClosedReconnects ==
    /\ Running
    /\ readyState \in {"OPEN", "CLOSING"}
    /\ readyState' = "NONE"
    /\ setup' = "acquiring"
    /\ lastEvent' = Ev("agent-close")
    /\ UNCHANGED << cur, other, stopReceived, variant, streamSid, callSid,
                    customParameters, toAgent, toTwilio, closeCalls,
                    twilioOpen, processAlive, startReceived >>

\* elevenLabsWs.on("close"): closed by the provider, or the close completes
AgentClosed ==
    /\ Running
    /\ readyState \in {"OPEN", "CLOSING"}
    /\ readyState' = "CLOSED"
    /\ lastEvent' = Ev("agent-close")
    /\ UNCHANGED << cur, other, stopReceived, variant, streamSid, callSid, customParameters, setup,
                    toAgent, toTwilio, closeCalls, twilioOpen, processAlive,
                    startReceived >>

----------------------------------------------------------------------------

Next ==
    \/ \E m \in StartMsgs : TwilioStart(m)
    \/ TwilioStartMalformed
    \/ \E p \in Payloads : TwilioMedia(p)
    \/ TwilioStop
    \/ TwilioIgnored
    \/ TwilioError
    \/ TwilioClose
    \/ SignedUrlResolved
    \/ SignedUrlRejected
    \/ AgentOpen
    \/ \E m \in AudioMsgs : AgentAudio(m)
    \/ \E id \in EventIds : AgentPing(id)
    \/ AgentInfo
    \/ AgentError
    \/ AgentClosed

Spec == Init /\ [][Next]_vars

----------------------------------------------------------------------------
(* Vocabulary of the properties *)

IsChunk(f) == "user_audio_chunk" \in DOMAIN f
IsPong(f) == "type" \in DOMAIN f /\ f.type = "pong"

ChunkFrames(frames) == SelectSeq(frames, IsChunk)

\* the session's state, without the history variable lastEvent
SessionState ==
    << streamSid, callSid, customParameters, setup, readyState, toAgent,
       toTwilio, closeCalls, twilioOpen, processAlive, startReceived,
       stopReceived >>

\* the connection object exists and is past CONNECTING
PastConnecting == readyState \in {"OPEN", "CLOSING", "CLOSED"}

----------------------------------------------------------------------------
(* C1: the initialization message is not sent to the agent before both the *)
(* agent connection is open and `start` has been received.                 *)
(* The "open" handler sends it at once, whether or not `start` came.       *)
C1_InitAfterOpenAndStart ==
    InitSent => (PastConnecting /\ startReceived)

(* C2 as stated: the initialization frame carries the prompt and           *)
(* first_message of the start event's customParameters if `start` was      *)
(* received before the connection reached open, and the fallback defaults  *)
(* otherwise (a `start` that carries no customParameters at all is taken   *)
(* with the second case).                                                  *)
C2_InitCarriesStartParams ==
    [][ lastEvent'.kind = "open" =>
          LET f == toAgent'[Len(toAgent')] IN
          IF startReceived /\ customParameters.defined
          THEN /\ f.prompt = customParameters.prompt
               /\ f.first_message = customParameters.first_message
          ELSE /\ f.prompt = DefaultPrompt(variant)
               /\ f.first_message = DefaultFirstMessage(variant) ]_vars

\* the value a field of the initialization frame takes from a parameter
FieldOrDefault(received, defined, value, default) ==
    IF received /\ defined /\ value # UNDEFINED /\ value # ""
    THEN value ELSE default

(* C2, amended: when the connection reaches open exactly one frame, the    *)
(* initialization frame, is sent; each of its two fields carries the value *)
(* of the customParameters of the last `start` received before open when   *)
(* that value is present and not the empty string, and the file's fixed    *)
(* fallback string in every other case (no `start` yet, a `start` without  *)
(* customParameters, the field missing or empty).                          *)
C2_InitCarriesParamsOrFallback ==
    [][ lastEvent'.kind = "open" =>
          /\ Len(toAgent') = Len(toAgent) + 1
          /\ SubSeq(toAgent', 1, Len(toAgent)) = toAgent
          /\ LET f == toAgent'[Len(toAgent')] IN
             /\ IsInit(f)
             /\ f.prompt =
                  FieldOrDefault(startReceived, customParameters.defined,
                                 customParameters.prompt, DefaultPrompt(variant))
             /\ f.first_message =
                  FieldOrDefault(startReceived, customParameters.defined,
                                 customParameters.first_message,
                                 DefaultFirstMessage(variant)) ]_vars

\* start{prompt "X", first_message "Y"} and then open: the frame carries both
C2_Witness ==
    /\ lastEvent.kind = "open"
    /\ startReceived
    /\ customParameters = [defined |-> TRUE, prompt |-> "X", first_message |-> "Y"]
    /\ toAgent = << [type |-> "conversation_initiation_client_data",
                     prompt |-> "X", first_message |-> "Y"] >>

(* C3: no payload of a `media` event received before `start` is forwarded  *)
(* to the agent, in any state of the agent connection.                     *)
(* Before `start`, every media event is such an event.                     *)
C3_NoMediaForwardedBeforeStart ==
    ~startReceived => ChunkFrames(toAgent) = << >>

(* C4: a user_audio_chunk frame is sent to the agent only while the agent  *)
(* connection is open.  A `media` event received in any other state       *)
(* (no connection object yet, connecting, closing, closed) sends nothing   *)
(* and changes no session state, and no later event sends its payload;     *)
(* a `media` event received while open sends exactly one frame, whose      *)
(* user_audio_chunk is the event's payload.                                *)
C4_MediaForwardedOnlyWhileOpen ==
    [][ /\ ChunkFrames(toAgent') # ChunkFrames(toAgent) =>
             lastEvent'.kind = "media" /\ readyState = "OPEN"
        /\ (lastEvent'.kind = "media" /\ readyState = "OPEN") =>
             /\ toAgent' = Append(toAgent, [user_audio_chunk |-> lastEvent'.chunk])
             /\ << streamSid, callSid, customParameters, setup, readyState,
                   toTwilio, closeCalls, twilioOpen, processAlive >>' =
                << streamSid, callSid, customParameters, setup, readyState,
                   toTwilio, closeCalls, twilioOpen, processAlive >>
        /\ (lastEvent'.kind = "media" /\ readyState # "OPEN") =>
             SessionState' = SessionState ]_vars

\* a chunk was forwarded while open, the connection was then closed by `stop`,
\* and a further media event has been received and dropped
C4_Witness ==
    /\ lastEvent.kind = "media"
    /\ readyState \in {"CLOSING", "CLOSED"}
    /\ closeCalls = 1
    /\ Len(toAgent) = 2
    /\ IsInit(toAgent[1])
    /\ toAgent[2] \in { [user_audio_chunk |-> p] : p \in Payloads }

(* C5: no media frame is sent to the telephony side unless `start` has     *)
(* been received and has set streamSid.  A frame is sent only by the       *)
(* handling of an agent `audio` message while streamSid is set, and it     *)
(* carries that streamSid; an `audio` message received while streamSid is  *)
(* unknown sends nothing, and no later event (a `start` included) sends    *)
(* it.                                                                     *)
C5_AudioOnlyAfterStreamSid ==
    [][ toTwilio' # toTwilio =>
          /\ lastEvent'.kind = "audio"
          /\ startReceived
          /\ streamSid # UNDEFINED /\ streamSid # ""
          /\ Len(toTwilio') = Len(toTwilio) + 1
          /\ SubSeq(toTwilio', 1, Len(toTwilio)) = toTwilio
          /\ toTwilio'[Len(toTwilio')].event = "media"
          /\ toTwilio'[Len(toTwilio')].streamSid = streamSid ]_vars

\* an audio message arrived on the open connection before `start`: dropped
C5_Witness ==
    /\ lastEvent.kind = "audio"
    /\ lastEvent.chunk = "AAAA"
    /\ readyState = "OPEN"
    /\ ~startReceived
    /\ toTwilio = << >>

(* C6: every agent `audio` message received while streamSid is known       *)
(* produces exactly one telephony frame {event "media", streamSid,         *)
(* payload}, with the session's streamSid and the message's payload        *)
(* unchanged, the payload being audio.chunk or, when that is absent,       *)
(* audio_event.audio_base_64.                                              *)
C6_AudioRelayedWithEitherField ==
    [][ ( /\ lastEvent'.kind = "audio"
          /\ streamSid # UNDEFINED /\ streamSid # ""
          /\ (lastEvent'.chunk # UNDEFINED \/ lastEvent'.alt # UNDEFINED) ) =>
          toTwilio' =
            Append(toTwilio,
                   [ event     |-> "media",
                     streamSid |-> streamSid,
                     payload   |-> IF lastEvent'.chunk # UNDEFINED
                                   THEN lastEvent'.chunk
                                   ELSE lastEvent'.alt ]) ]_vars

(* C7: every `ping` received on the open connection that carries an event  *)
(* identifier (0 included) yields exactly one frame {type "pong",          *)
(* event_id} with that identifier, sent within the handling of the ping;   *)
(* a ping without an identifier yields no frame.                           *)
C7_EveryPingAnswered ==
    [][ (lastEvent'.kind = "ping" /\ readyState = "OPEN") =>
          IF lastEvent'.id # NoEventId
          THEN toAgent' =
                 Append(toAgent, [type |-> "pong", event_id |-> lastEvent'.id])
          ELSE toAgent' = toAgent ]_vars

(* C8: once the telephony stream has closed, with or without a `stop`      *)
(* before it, the agent connection is not open.                            *)
C8_AgentClosedWithTelephony ==
    ~twilioOpen => readyState # "OPEN"

(* C9: elevenLabsWs.close() is called at most once in a session, however   *)
(* many `stop` events arrive.                                              *)
C9_CloseCalledAtMostOnce ==
    closeCalls <= 1

(* C10: a transport-level error on the agent connection does not close     *)
(* the telephony connection and does not terminate the process: no         *)
(* process-fatal state is reachable.                                       *)
C10_AgentErrorNotFatal ==
    [][ lastEvent'.kind = "agent-error" =>
          processAlive' /\ twilioOpen' = twilioOpen ]_vars

----------------------------------------------------------------------------
\* events that carry none of what their kind needs: a payload JSON.parse
\* rejects or an event without its nested object (kinds "start!", "ignored"
\* on the telephony stream, "info" on the agent stream), and a start whose
\* start object holds no streamSid
LacksFields(e) ==
    \/ e.kind \in {"start!", "ignored", "info"}
    \/ e.kind = "start" /\ e.chunk = UNDEFINED

(* C11 as stated: a malformed message on either stream (unparseable, or a   *)
(* parsed event lacking the nested fields its kind requires) leaves        *)
(* streamSid, callSid, customParameters and the agent connection           *)
(* unchanged and closes neither connection.                                *)
C11_MalformedChangesNothing ==
    [][ LacksFields(lastEvent') =>
          << streamSid, callSid, customParameters, setup, readyState,
             closeCalls, twilioOpen, processAlive >>' =
          << streamSid, callSid, customParameters, setup, readyState,
             closeCalls, twilioOpen, processAlive >> ]_vars

(* C11, amended: a message that fails JSON parsing on either stream, and a *)
(* telephony event without the nested object its case reads (a start      *)
(* without msg.start, a media without msg.media), changes nothing: the     *)
(* session's variables, both connections and the frames sent stay as they  *)
(* were, the process lives, and the next event is handled from the same    *)
(* state.  (A start whose start object lacks its fields is not covered: it *)
(* is handled as a start and overwrites the three variables.)              *)
C11_ThrownEventChangesNothing ==
    [][ lastEvent'.kind \in {"start!", "ignored", "info"} =>
          SessionState' = SessionState ]_vars

\* a start without its start object arrived in mid-call and left the session
\* as it was
C11_Witness ==
    /\ lastEvent.kind = "start!"
    /\ streamSid = "S1"
    /\ callSid = "C1"
    /\ customParameters = [defined |-> TRUE, prompt |-> "X", first_message |-> "Y"]
    /\ readyState = "OPEN"
    /\ twilioOpen /\ processAlive

----------------------------------------------------------------------------
(* C12: a failed endpoint acquisition is terminal for the agent leg only:  *)
(* it is not retried, no connection object is ever created, nothing is     *)
(* ever sent to the agent or to the telephony side, close() is never       *)
(* called, the failure leaves the telephony connection as it was, and the  *)
(* later start, media and stop events are handled (media dropped) with     *)
(* the process alive.                                                      *)
C12_AcquisitionFailureIsTerminal ==
    [][ /\ setup = "failed" => setup' = "failed"
        /\ setup' = "failed" =>
             /\ setup \in {"acquiring", "failed"}
             /\ readyState' = "NONE"
             /\ toAgent' = << >> /\ toTwilio' = << >>
             /\ closeCalls' = 0
             /\ processAlive'
             /\ lastEvent'.kind = "signed-url!" => twilioOpen' = twilioOpen
             /\ lastEvent'.kind = "start" => streamSid' = lastEvent'.chunk
             /\ lastEvent'.kind = "stop" => stopReceived' ]_vars

\* after the failure a start and a stop were handled and a media was dropped
C12_Witness ==
    /\ setup = "failed"
    /\ startReceived /\ stopReceived
    /\ streamSid = "S1"
    /\ lastEvent.kind = "media"
    /\ twilioOpen /\ processAlive
    /\ toAgent = << >>

\* the state of the agent connection, in the words of the state machine;
\* closing counts with closed, and so does a failed acquisition
Phase ==
    IF setup = "acquiring" THEN "acquiring-endpoint"
    ELSE IF setup = "failed" THEN "closed"
    ELSE IF readyState = "CONNECTING" THEN "connecting"
    ELSE IF readyState = "OPEN" THEN "open"
    ELSE "closed"

\* the place of a phase in the order of the state machine
PhaseRank(ph) ==
    CASE ph = "acquiring-endpoint" -> 1
      [] ph = "connecting" -> 2
      [] ph = "open" -> 3
      [] ph = "closed" -> 4

C14_OneAgentConnection ==
    [][ /\ setup' # setup => setup = "acquiring"
        /\ (readyState = "NONE" /\ readyState' # "NONE") =>
             /\ lastEvent'.kind = "signed-url"
             /\ setup = "acquiring" /\ setup' = "created"
             /\ readyState' = "CONNECTING"
        /\ readyState # "NONE" => readyState' # "NONE"
        /\ readyState' = "CONNECTING" => readyState \in {"NONE", "CONNECTING"}
        /\ (readyState' # "NONE") = (setup' = "created") ]_vars

\* a second start arrived on the open connection of a session whose first
\* start came before open
C14_Witness ==
    /\ lastEvent.kind = "start"
    /\ lastEvent.chunk = "S1"
    /\ customParameters = NoParams
    /\ readyState = "OPEN"
    /\ toAgent = << [type |-> "conversation_initiation_client_data",
                     prompt |-> "X", first_message |-> "Y"] >>

----------------------------------------------------------------------------
(* Two concurrent sessions in one process.  Each connection to the route   *)
(* runs the handler again, with its own streamSid, callSid, elevenLabsWs   *)
(* and customParameters; the process is the only thing the sessions share. *)
(* The variables of the module hold the session whose event is being       *)
(* handled, `other` holds the second session, and SwitchSession hands the  *)
(* turn to it.                                                             *)

\* the per-connection variables of the session in turn
CurrentSession ==
    [ streamSid |-> streamSid, callSid |-> callSid,
      customParameters |-> customParameters, setup |-> setup,
      readyState |-> readyState, toAgent |-> toAgent, toTwilio |-> toTwilio,
      closeCalls |-> closeCalls, twilioOpen |-> twilioOpen,
      startReceived |-> startReceived, stopReceived |-> stopReceived ]

\* the next event the process handles belongs to the other session
SwitchSession ==
    /\ Running
    /\ other' = CurrentSession
    /\ streamSid' = other.streamSid
    /\ callSid' = other.callSid
    /\ customParameters' = other.customParameters
    /\ setup' = other.setup
    /\ readyState' = other.readyState
    /\ toAgent' = other.toAgent
    /\ toTwilio' = other.toTwilio
    /\ closeCalls' = other.closeCalls
    /\ twilioOpen' = other.twilioOpen
    /\ startReceived' = other.startReceived
    /\ stopReceived' = other.stopReceived
    /\ cur' = IF cur = 1 THEN 2 ELSE 1
    /\ lastEvent' = Ev("switch")
    /\ UNCHANGED << variant, processAlive >>

\* the part of the two sessions the two-session specification explores.
\* Session 1: the initialization frame alone on the agent side, one close(),
\* a start with both parameters or with none.  Session 2: a call up to its
\* open connection, with no frame relayed, no stop and no close.
InTwoSessionScope ==
    /\ Len(toAgent) <= 1
    /\ closeCalls <= 1
    /\ customParameters \in
         {NoParams, [defined |-> TRUE, prompt |-> "X", first_message |-> "Y"]}
    /\ cur = 2 =>
         /\ customParameters = NoParams
         /\ toTwilio = << >>
         /\ closeCalls = 0
         /\ twilioOpen /\ ~stopReceived
         /\ readyState \in {"NONE", "CONNECTING", "OPEN"}

NextTwo ==
    \/ SwitchSession
    \/ (\E m \in StartMsgs : TwilioStart(m)) /\ InTwoSessionScope'
    \/ TwilioStartMalformed /\ InTwoSessionScope'
    \/ (\E p \in Payloads : TwilioMedia(p)) /\ InTwoSessionScope'
    \/ TwilioStop /\ InTwoSessionScope'
    \/ TwilioIgnored /\ InTwoSessionScope'
    \/ TwilioError /\ InTwoSessionScope'
    \/ TwilioClose /\ InTwoSessionScope'
    \/ SignedUrlResolved /\ InTwoSessionScope'
    \/ SignedUrlRejected /\ InTwoSessionScope'
    \/ AgentOpen /\ InTwoSessionScope'
    \/ (\E m \in AudioMsgs : AgentAudio(m)) /\ InTwoSessionScope'
    \/ (\E id \in EventIds : AgentPing(id)) /\ InTwoSessionScope'
    \/ AgentInfo /\ InTwoSessionScope'
    \/ AgentError /\ InTwoSessionScope'
    \/ AgentClosed /\ InTwoSessionScope'

SpecTwo == Init /\ [][NextTwo]_vars

(* C15: with two concurrent sessions, the events of one session never      *)
(* change the other session's variables or frames, and never change what   *)
(* the other session goes on to send: handling an event of one session     *)
(* leaves the other session as it was and able to handle its own events.   *)
C15_SessionsIndependent ==
    [][ lastEvent'.kind # "switch" =>
          /\ other' = other
          /\ processAlive' = processAlive ]_vars

----------------------------------------------------------------------------
\* the user_audio_chunk payloads sent to the agent, in the order sent
ChunkPayloads(frames) ==
    LET c == ChunkFrames(frames) IN [i \in 1..Len(c) |-> c[i].user_audio_chunk]

HasPayload(f) == f.payload # UNDEFINED

\* the payloads of the media frames sent to the telephony side, in order
MediaPayloads(frames) ==
    LET c == SelectSeq(frames, HasPayload) IN [i \in 1..Len(c) |-> c[i].payload]

(* C16: in each direction the relayed frames are 1:1 and in arrival order. *)
(* The payloads sent to the agent grow by exactly the payload of each      *)
(* media event received while the connection is open, appended at the end, *)
(* and by nothing else; the payloads sent to the telephony side grow by    *)
(* exactly the payload (audio.chunk, else audio_event.audio_base_64) of    *)
(* each agent audio message received while streamSid is known, appended    *)
(* at the end, and by nothing else.                                        *)
C16_RelayInOrderOneToOne ==
    [][ /\ IF lastEvent'.kind = "media" /\ readyState = "OPEN"
           THEN ChunkPayloads(toAgent') =
                  Append(ChunkPayloads(toAgent), lastEvent'.chunk)
           ELSE ChunkPayloads(toAgent') = ChunkPayloads(toAgent)
        /\ IF /\ lastEvent'.kind = "audio"
              /\ streamSid # UNDEFINED /\ streamSid # ""
              /\ (lastEvent'.chunk # UNDEFINED \/ lastEvent'.alt # UNDEFINED)
           THEN MediaPayloads(toTwilio') =
                  Append(MediaPayloads(toTwilio),
                         IF lastEvent'.chunk # UNDEFINED
                         THEN lastEvent'.chunk ELSE lastEvent'.alt)
           ELSE MediaPayloads(toTwilio') = MediaPayloads(toTwilio) ]_vars

(* C17: customParameters are set once, by the first start event, and no    *)
(* later event, a second start included, changes them: once a start event  *)
(* has delivered them, every step leaves them as they are.                 *)
C17_ParamsImmutableAfterStart ==
    [][ customParameters.defined => customParameters' = customParameters ]_vars

(* C18: once a stop event has been processed the agent connection is       *)
(* never open, whether the stop came while the endpoint was being          *)
(* acquired, while connecting or while open; and no initialization         *)
(* message and no user_audio_chunk is sent to the agent after the stop.    *)
C18_NeverOpenAfterStop ==
    [][ stopReceived' =>
          /\ readyState' # "OPEN"
          /\ stopReceived =>
                /\ InitSent' = InitSent
                /\ ChunkFrames(toAgent') = ChunkFrames(toAgent) ]_vars

(* C19: on an agent connection that has reached open the initialization    *)
(* message has been sent, it is the first frame sent on the connection,    *)
(* and it is sent once: no user_audio_chunk and no pong precedes it, and   *)
(* no second initialization message follows.                               *)
C19_InitFirstAndOnce ==
    /\ readyState = "OPEN" => InitSent
    /\ toAgent # << >> => IsInit(toAgent[1])
    /\ \A i \in 2..Len(toAgent) : ~IsInit(toAgent[i])

\* media events raced the open event: the one forwarded follows the
\* initialization message
C19_Witness ==
    /\ lastEvent.kind = "media"
    /\ readyState = "OPEN"
    /\ ~startReceived /\ ~stopReceived
    /\ Len(toAgent) = 2
    /\ IsInit(toAgent[1])
    /\ IsChunk(toAgent[2])

====
